---------------------------- MODULE Spec2Model ----------------------------
(***************************************************************************)
(* Model of src/index.ts: the Abstract Factory example.                    *)
(*                                                                         *)
(* The heap is a sequence of objects (the index is the reference), each    *)
(* carrying its class and the set of references held in its fields.  The   *)
(* classes of src/index.ts declare no fields, so `new` allocates objects   *)
(* with an empty reference set.  Interface calls are modelled as dynamic   *)
(* dispatch on the receiver's class; a receiver lacking the method gives   *)
(* the TypeError outcome the JavaScript runtime raises.                    *)
(*                                                                         *)
(* Two drivers use the classes:                                            *)
(*   "script"  - the module-scope statements of lines 141-147, in order;   *)
(*   "harness" - a caller that issues any type-correct sequence of calls   *)
(*               of the declared methods and of codigoCliente, up to       *)
(*               MaxOps calls.                                             *)
(* codigoCliente runs one source line per step in both drivers.            *)
(***************************************************************************)
EXTENDS Naturals, Sequences, FiniteSets, TLC

\* Number of calls the harness driver issues.
MaxOps == 5

VARIABLES
    driver,   \* "script" | "harness"
    pc,       \* next module-scope statement of the script, or "harness"
    heap,     \* sequence of objects [cls, refs]
    frame,    \* activation of codigoCliente, or NoFrame
    stdout,   \* lines written by console.log, oldest first
    trace,    \* history: every method call made, with its result
    runs,     \* history: one record per completed codigoCliente invocation
    held,     \* references the harness has obtained and still holds
    ops       \* number of calls issued by the harness

vars == <<driver, pc, heap, frame, stdout, trace, runs, held, ops>>

-----------------------------------------------------------------------------
(* Objects and allocation *)

NoFrame == [pc |-> "none"]

\* `new C()` for a class without fields or constructor.
New(h, cls) == [heap |-> Append(h, [cls |-> cls, refs |-> {}]), ret |-> Len(h) + 1]

Refs(h) == 1..Len(h)

FactoryClasses == {"FabricaConcreta1", "FabricaConcreta2"}
AClasses == {"ProductoConcretoA1", "ProductoConcretoA2"}
BClasses == {"ProductoConcretoB1", "ProductoConcretoB2"}

\* Values of the declared interface types among the references rs
\* (structural typing: the objects that carry the interface's methods).
FabricaAbstracta(h, rs) == {o \in rs : h[o].cls \in FactoryClasses}
ProductoAbstractoA(h, rs) == {o \in rs : h[o].cls \in AClasses}
ProductoAbstractoB(h, rs) == {o \in rs : h[o].cls \in BClasses}

-----------------------------------------------------------------------------
(* Concrete factories *)

\* Variant: the factory keeps a single A1 instance and hands it out again.
FabricaConcreta1_crearProductoA_singleton(h, self) ==
    IF \E o \in Refs(h) : h[o].cls = "ProductoConcretoA1"
    THEN [heap |-> h, ret |-> CHOOSE o \in Refs(h) : h[o].cls = "ProductoConcretoA1"]
    ELSE New(h, "ProductoConcretoA1")

FabricaConcreta1_crearProductoA(h, self) == New(h, "ProductoConcretoA1")

\* Variant: factory 1 builds the B product of the other family.
FabricaConcreta1_crearProductoB_other(h, self) == New(h, "ProductoConcretoB2")

FabricaConcreta1_crearProductoB(h, self) == New(h, "ProductoConcretoB1")

\* Variant: factory 2 copied from factory 1 without renaming the product.
FabricaConcreta2_crearProductoA_copied(h, self) == New(h, "ProductoConcretoA1")

FabricaConcreta2_crearProductoA(h, self) == New(h, "ProductoConcretoA2")

FabricaConcreta2_crearProductoB(h, self) == New(h, "ProductoConcretoB2")

\* fabrica.crearProductoA(): dispatch on the receiver's class.
crearProductoA(h, self) ==
    CASE h[self].cls = "FabricaConcreta1" ->
            [out |-> "ok"] @@ FabricaConcreta1_crearProductoA(h, self)
      [] h[self].cls = "FabricaConcreta2" ->
            [out |-> "ok"] @@ FabricaConcreta2_crearProductoA(h, self)
      [] OTHER -> [out |-> "TypeError", heap |-> h, ret |-> 0]

crearProductoB(h, self) ==
    CASE h[self].cls = "FabricaConcreta1" ->
            [out |-> "ok"] @@ FabricaConcreta1_crearProductoB(h, self)
      [] h[self].cls = "FabricaConcreta2" ->
            [out |-> "ok"] @@ FabricaConcreta2_crearProductoB(h, self)
      [] OTHER -> [out |-> "TypeError", heap |-> h, ret |-> 0]

-----------------------------------------------------------------------------
(* Concrete products *)

ProductoConcretoA1_funcionUtilA(h, self) == "El resultado del producto A1."

\* Variant: A2 copied from A1 without renaming the label.
ProductoConcretoA2_funcionUtilA_copied(h, self) == "El resultado del producto A1."

ProductoConcretoA2_funcionUtilA(h, self) == "El resultado del producto A2."

\* colaborador.funcionUtilA(): dispatch on the receiver's class.
funcionUtilA(h, self) ==
    CASE h[self].cls = "ProductoConcretoA1" ->
            [out |-> "ok", str |-> ProductoConcretoA1_funcionUtilA(h, self)]
      [] h[self].cls = "ProductoConcretoA2" ->
            [out |-> "ok", str |-> ProductoConcretoA2_funcionUtilA(h, self)]
      [] OTHER -> [out |-> "TypeError", str |-> ""]

\* Variant: the label numbers the instance instead of the variant.
ProductoConcretoB1_funcionUtilB_numbered(h, self) ==
    "El resultado del producto B" \o ToString(self) \o "."

ProductoConcretoB1_funcionUtilB(h, self) == "El resultado del producto B1."

\* Variant: B2 copied from B1 without renaming the label.
ProductoConcretoB2_funcionUtilB_copied(h, self) == "El resultado del producto B1."

ProductoConcretoB2_funcionUtilB(h, self) == "El resultado del producto B2."

funcionUtilB(h, self) ==
    CASE h[self].cls = "ProductoConcretoB1" ->
            [out |-> "ok", str |-> ProductoConcretoB1_funcionUtilB(h, self)]
      [] h[self].cls = "ProductoConcretoB2" ->
            [out |-> "ok", str |-> ProductoConcretoB2_funcionUtilB(h, self)]
      [] OTHER -> [out |-> "TypeError", str |-> ""]

\* Variant: B1 assumes its own family's collaborator and ignores the argument's label.
ProductoConcretoB1_otraFuncionUtilB_fixed(h, self, colaborador) ==
    [out |-> "ok",
     str |-> "El resultado de B1 colaborando con el (El resultado del producto A1.)"]

\* const resultado = colaborador.funcionUtilA(); return `... (${resultado})`;
\* an exception of the inner call propagates.
ProductoConcretoB1_otraFuncionUtilB(h, self, colaborador) ==
    LET resultado == funcionUtilA(h, colaborador)
    IN  IF resultado.out /= "ok" THEN resultado
        ELSE [out |-> "ok",
              str |-> "El resultado de B1 colaborando con el (" \o resultado.str \o ")"]

\* Variant: B2 copied from B1 without renaming the template.
ProductoConcretoB2_otraFuncionUtilB_copied(h, self, colaborador) ==
    LET resultado == funcionUtilA(h, colaborador)
    IN  IF resultado.out /= "ok" THEN resultado
        ELSE [out |-> "ok",
              str |-> "El resultado de B1 colaborando con el (" \o resultado.str \o ")"]

ProductoConcretoB2_otraFuncionUtilB(h, self, colaborador) ==
    LET resultado == funcionUtilA(h, colaborador)
    IN  IF resultado.out /= "ok" THEN resultado
        ELSE [out |-> "ok",
              str |-> "El resultado de B2 colaborando con el (" \o resultado.str \o ")"]

otraFuncionUtilB(h, self, colaborador) ==
    CASE h[self].cls = "ProductoConcretoB1" ->
            ProductoConcretoB1_otraFuncionUtilB(h, self, colaborador)
      [] h[self].cls = "ProductoConcretoB2" ->
            ProductoConcretoB2_otraFuncionUtilB(h, self, colaborador)
      [] OTHER -> [out |-> "TypeError", str |-> ""]

-----------------------------------------------------------------------------
(* History records *)

\* A call event: the method, its receiver, its argument (0: none), the
\* caller, the outcome, and the result as a reference or as a string.
Event(op, self, arg, by, out, obj, str) ==
    [op |-> op, self |-> self, arg |-> arg, by |-> by,
     out |-> out, obj |-> obj, str |-> str]

\* The events of otraFuncionUtilB: the outer call and the nested call of
\* colaborador.funcionUtilA() it makes first.
CollabEvents(h, b, a, by) ==
    LET inner == funcionUtilA(h, a)
        outer == otraFuncionUtilB(h, b, a)
    IN  << Event("funcionUtilA", a, 0, "otraFuncionUtilB", inner.out, 0, inner.str),
           Event("otraFuncionUtilB", b, a, by, outer.out, 0, outer.str) >>

-----------------------------------------------------------------------------
(* codigoCliente, one source line per step *)

\* Entry of codigoCliente(fabrica): the parameter is bound, the locals are unset.
Enter(fabrica) ==
    [pc |-> "L131", fabrica |-> fabrica, productoA |-> 0, productoB |-> 0,
     out0 |-> Len(stdout), trace0 |-> Len(trace)]

\* line 131: const productoA = fabrica.crearProductoA();
Cliente131 ==
    /\ frame.pc = "L131"
    /\ LET r == crearProductoA(heap, frame.fabrica)
       IN  /\ heap' = r.heap
           /\ trace' = Append(trace, Event("crearProductoA", frame.fabrica, 0,
                                           "codigoCliente", r.out, r.ret, ""))
           /\ frame' = [frame EXCEPT !.pc = "L132", !.productoA = r.ret]
    /\ UNCHANGED <<driver, pc, stdout, runs, held, ops>>

\* line 132: const productoB = fabrica.crearProductoB();
Cliente132 ==
    /\ frame.pc = "L132"
    /\ LET r == crearProductoB(heap, frame.fabrica)
       IN  /\ heap' = r.heap
           /\ trace' = Append(trace, Event("crearProductoB", frame.fabrica, 0,
                                           "codigoCliente", r.out, r.ret, ""))
           /\ frame' = [frame EXCEPT !.pc = "L134", !.productoB = r.ret]
    /\ UNCHANGED <<driver, pc, stdout, runs, held, ops>>

\* line 134: console.log(productoB.funcionUtilB());
Cliente134 ==
    /\ frame.pc = "L134"
    /\ LET r == funcionUtilB(heap, frame.productoB)
       IN  /\ trace' = Append(trace, Event("funcionUtilB", frame.productoB, 0,
                                           "codigoCliente", r.out, 0, r.str))
           /\ stdout' = Append(stdout, r.str)
    /\ frame' = [frame EXCEPT !.pc = "L135"]
    /\ UNCHANGED <<driver, pc, heap, runs, held, ops>>

\* Variant of line 135: the collaborator is built again,
\* console.log(productoB.otraFuncionUtilB(fabrica.crearProductoA())).
Cliente135_recreate ==
    /\ frame.pc = "L135"
    /\ LET c == crearProductoA(heap, frame.fabrica)
           r == otraFuncionUtilB(c.heap, frame.productoB, c.ret)
           t == Append(trace, Event("crearProductoA", frame.fabrica, 0,
                                    "codigoCliente", c.out, c.ret, ""))
                \o CollabEvents(c.heap, frame.productoB, c.ret, "codigoCliente")
           o == Append(stdout, r.str)
       IN  /\ heap' = c.heap
           /\ trace' = t
           /\ stdout' = o
           /\ runs' = Append(runs,
                  [fabrica |-> frame.fabrica,
                   productoA |-> frame.productoA,
                   productoB |-> frame.productoB,
                   out |-> SubSeq(o, frame.out0 + 1, Len(o)),
                   calls |-> SubSeq(t, frame.trace0 + 1, Len(t))])
    /\ frame' = NoFrame
    /\ UNCHANGED <<driver, pc, held, ops>>

\* line 135: console.log(productoB.otraFuncionUtilB(productoA)); and return.
Cliente135 ==
    /\ frame.pc = "L135"
    /\ LET r == otraFuncionUtilB(heap, frame.productoB, frame.productoA)
           t == trace \o CollabEvents(heap, frame.productoB, frame.productoA,
                                      "codigoCliente")
           o == Append(stdout, r.str)
       IN  /\ trace' = t
           /\ stdout' = o
           /\ runs' = Append(runs,
                  [fabrica |-> frame.fabrica,
                   productoA |-> frame.productoA,
                   productoB |-> frame.productoB,
                   out |-> SubSeq(o, frame.out0 + 1, Len(o)),
                   calls |-> SubSeq(t, frame.trace0 + 1, Len(t))])
    /\ frame' = NoFrame
    /\ UNCHANGED <<driver, pc, heap, held, ops>>

-----------------------------------------------------------------------------
(* Driver: the module-scope statements, lines 141-147 *)

\* line 141
Script141 ==
    /\ pc = "L141"
    /\ stdout' = Append(stdout,
          "Cliente: Probando el código del cliente con el primer tipo de fábrica...")
    /\ pc' = "L142"
    /\ UNCHANGED <<driver, heap, frame, trace, runs, held, ops>>

\* line 142: codigoCliente(new FabricaConcreta1());
Script142 ==
    /\ pc = "L142"
    /\ LET n == New(heap, "FabricaConcreta1")
       IN  /\ heap' = n.heap
           /\ frame' = Enter(n.ret)
    /\ pc' = "L144"
    /\ UNCHANGED <<driver, stdout, trace, runs, held, ops>>

\* Variant of line 144: the separating console.log('') is left out.
Script144_skipped ==
    /\ pc = "L144"
    /\ frame = NoFrame
    /\ pc' = "L146"
    /\ UNCHANGED <<driver, heap, frame, stdout, trace, runs, held, ops>>

\* line 144: console.log('');
Script144 ==
    /\ pc = "L144"
    /\ frame = NoFrame
    /\ stdout' = Append(stdout, "")
    /\ pc' = "L146"
    /\ UNCHANGED <<driver, heap, frame, trace, runs, held, ops>>

\* line 146
Script146 ==
    /\ pc = "L146"
    /\ stdout' = Append(stdout,
          "Cliente: Probando el mismo código del cliente con el segundo tipo de fábrica...")
    /\ pc' = "L147"
    /\ UNCHANGED <<driver, heap, frame, trace, runs, held, ops>>

\* line 147: codigoCliente(new FabricaConcreta2()); then the script ends.
Script147 ==
    /\ pc = "L147"
    /\ LET n == New(heap, "FabricaConcreta2")
       IN  /\ heap' = n.heap
           /\ frame' = Enter(n.ret)
    /\ pc' = "end"
    /\ UNCHANGED <<driver, stdout, trace, runs, held, ops>>

\* The script has run to its end: the last call has returned.
ScriptDone == driver = "script" /\ pc = "end" /\ frame = NoFrame

-----------------------------------------------------------------------------
(* Driver: a caller of the declared methods *)

Idle == driver = "harness" /\ frame = NoFrame /\ ops < MaxOps

\* new FabricaConcreta1() / new FabricaConcreta2()
HarnessNewFabrica ==
    /\ Idle
    /\ \E cls \in FactoryClasses :
          /\ heap' = New(heap, cls).heap
          /\ held' = held \cup {New(heap, cls).ret}
    /\ ops' = ops + 1
    /\ UNCHANGED <<driver, pc, frame, stdout, trace, runs>>

\* codigoCliente(fabrica) on a factory that already exists
HarnessCliente ==
    /\ Idle
    /\ \E f \in FabricaAbstracta(heap, held) : frame' = Enter(f)
    /\ ops' = ops + 1
    /\ UNCHANGED <<driver, pc, heap, stdout, trace, runs, held>>

HarnessCrearProductoA ==
    /\ Idle
    /\ \E f \in FabricaAbstracta(heap, held) :
          LET r == crearProductoA(heap, f)
          IN  /\ heap' = r.heap
              /\ trace' = Append(trace, Event("crearProductoA", f, 0, "harness",
                                              r.out, r.ret, ""))
              /\ held' = held \cup {r.ret}
    /\ ops' = ops + 1
    /\ UNCHANGED <<driver, pc, frame, stdout, runs>>

HarnessCrearProductoB ==
    /\ Idle
    /\ \E f \in FabricaAbstracta(heap, held) :
          LET r == crearProductoB(heap, f)
          IN  /\ heap' = r.heap
              /\ trace' = Append(trace, Event("crearProductoB", f, 0, "harness",
                                              r.out, r.ret, ""))
              /\ held' = held \cup {r.ret}
    /\ ops' = ops + 1
    /\ UNCHANGED <<driver, pc, frame, stdout, runs>>

HarnessFuncionUtilA ==
    /\ Idle
    /\ \E a \in ProductoAbstractoA(heap, held) :
          LET r == funcionUtilA(heap, a)
          IN  trace' = Append(trace, Event("funcionUtilA", a, 0, "harness",
                                           r.out, 0, r.str))
    /\ ops' = ops + 1
    /\ UNCHANGED <<driver, pc, heap, frame, stdout, runs, held>>

HarnessFuncionUtilB ==
    /\ Idle
    /\ \E b \in ProductoAbstractoB(heap, held) :
          LET r == funcionUtilB(heap, b)
          IN  trace' = Append(trace, Event("funcionUtilB", b, 0, "harness",
                                           r.out, 0, r.str))
    /\ ops' = ops + 1
    /\ UNCHANGED <<driver, pc, heap, frame, stdout, runs, held>>

HarnessOtraFuncionUtilB ==
    /\ Idle
    /\ \E b \in ProductoAbstractoB(heap, held), a \in ProductoAbstractoA(heap, held) :
          trace' = trace \o CollabEvents(heap, b, a, "harness")
    /\ ops' = ops + 1
    /\ UNCHANGED <<driver, pc, heap, frame, stdout, runs, held>>

-----------------------------------------------------------------------------

Init ==
    /\ driver \in {"script", "harness"}
    /\ pc = IF driver = "script" THEN "L141" ELSE "harness"
    /\ heap = << >>
    /\ frame = NoFrame
    /\ stdout = << >>
    /\ trace = << >>
    /\ runs = << >>
    /\ held = {}
    /\ ops = 0

Next ==
    \/ Script141
    \/ Script142
    \/ Script144
    \/ Script146
    \/ Script147
    \/ Cliente131
    \/ Cliente132
    \/ Cliente134
    \/ Cliente135
    \/ HarnessNewFabrica
    \/ HarnessCliente
    \/ HarnessCrearProductoA
    \/ HarnessCrearProductoB
    \/ HarnessFuncionUtilA
    \/ HarnessFuncionUtilB
    \/ HarnessOtraFuncionUtilB

Spec == Init /\ [][Next]_vars

TypeOK ==
    /\ driver \in {"script", "harness"}
    /\ ops \in 0..MaxOps
    /\ held \subseteq Refs(heap)
    /\ driver = "script" => held = {} /\ ops = 0
    /\ \A o \in Refs(heap) : heap[o].cls \in FactoryClasses \cup AClasses \cup BClasses

-----------------------------------------------------------------------------
(* Properties *)

\* The variant number carried by a class name.
VariantOf(o) ==
    IF heap[o].cls \in {"FabricaConcreta1", "ProductoConcretoA1", "ProductoConcretoB1"}
    THEN 1 ELSE 2

Events(op) == {i \in 1..Len(trace) : trace[i].op = op}

Creates == Events("crearProductoA") \cup Events("crearProductoB")

\* C1: every createProductA() on factory N has returned a Product A of
\* variant N and every createProductB() on factory N a Product B of variant
\* N, whatever calls came before.
C1_Pairing ==
    /\ \A i \in Events("crearProductoA") :
          /\ trace[i].out = "ok"
          /\ heap[trace[i].obj].cls \in AClasses
          /\ VariantOf(trace[i].obj) = VariantOf(trace[i].self)
    /\ \A i \in Events("crearProductoB") :
          /\ trace[i].out = "ok"
          /\ heap[trace[i].obj].cls \in BClasses
          /\ VariantOf(trace[i].obj) = VariantOf(trace[i].self)

\* Both factories have been asked for both products.
C1_Witness ==
    \A cls \in FactoryClasses :
       /\ \E i \in Events("crearProductoA") : heap[trace[i].self].cls = cls
       /\ \E i \in Events("crearProductoB") : heap[trace[i].self].cls = cls

\* C2 as stated: labelA() of A1 returns "result of product A1." and of A2
\* "result of product A2.", on every call.
C2_LabelA_Stated ==
    \A i \in Events("funcionUtilA") :
       /\ heap[trace[i].self].cls = "ProductoConcretoA1"
             => trace[i].str = "result of product A1."
       /\ heap[trace[i].self].cls = "ProductoConcretoA2"
             => trace[i].str = "result of product A2."

\* C2 amended: funcionUtilA() of A1 returns "El resultado del producto A1."
\* and of A2 "El resultado del producto A2.", on every call.
C2_LabelA ==
    \A i \in Events("funcionUtilA") :
       /\ trace[i].out = "ok"
       /\ heap[trace[i].self].cls = "ProductoConcretoA1"
             => trace[i].str = "El resultado del producto A1."
       /\ heap[trace[i].self].cls = "ProductoConcretoA2"
             => trace[i].str = "El resultado del producto A2."

\* funcionUtilA() has been called twice on one A2 instance.
C2_Witness ==
    \E i, j \in Events("funcionUtilA") :
       /\ i < j
       /\ trace[i].self = trace[j].self
       /\ heap[trace[i].self].cls = "ProductoConcretoA2"

\* C3 as stated: labelB() of B1 returns "result of product B1." and of B2
\* "result of product B2.", on every call.
C3_LabelB_Stated ==
    \A i \in Events("funcionUtilB") :
       /\ heap[trace[i].self].cls = "ProductoConcretoB1"
             => trace[i].str = "result of product B1."
       /\ heap[trace[i].self].cls = "ProductoConcretoB2"
             => trace[i].str = "result of product B2."

\* C3 amended: funcionUtilB() of B1 returns "El resultado del producto B1."
\* and of B2 "El resultado del producto B2.", on every call.
C3_LabelB ==
    \A i \in Events("funcionUtilB") :
       /\ trace[i].out = "ok"
       /\ heap[trace[i].self].cls = "ProductoConcretoB1"
             => trace[i].str = "El resultado del producto B1."
       /\ heap[trace[i].self].cls = "ProductoConcretoB2"
             => trace[i].str = "El resultado del producto B2."

\* funcionUtilB() has been called twice on one B2 instance.
C3_Witness ==
    \E i, j \in Events("funcionUtilB") :
       /\ i < j
       /\ trace[i].self = trace[j].self
       /\ heap[trace[i].self].cls = "ProductoConcretoB2"

Matched(i, n) ==
    /\ VariantOf(trace[i].self) = n
    /\ VariantOf(trace[i].arg) = n

\* C4 as stated: for a matched pair collaborate returns
\* "result of B<N> collaborating with the (result of product A<N>.)".
C4_Matched_Stated ==
    \A i \in Events("otraFuncionUtilB") :
       /\ Matched(i, 1) => trace[i].str =
             "result of B1 collaborating with the (result of product A1.)"
       /\ Matched(i, 2) => trace[i].str =
             "result of B2 collaborating with the (result of product A2.)"

\* C4 amended: for a matched pair otraFuncionUtilB returns
\* "El resultado de B<N> colaborando con el (El resultado del producto A<N>.)".
C4_Matched ==
    \A i \in Events("otraFuncionUtilB") :
       /\ Matched(i, 1) => trace[i].str =
             "El resultado de B1 colaborando con el (El resultado del producto A1.)"
       /\ Matched(i, 2) => trace[i].str =
             "El resultado de B2 colaborando con el (El resultado del producto A2.)"

\* Both matched pairs have collaborated.
C4_Witness ==
    \A n \in {1, 2} : \E i \in Events("otraFuncionUtilB") : Matched(i, n)

\* The prefix of the template literal of B<n>.otraFuncionUtilB.
PrefixB(n) ==
    IF n = 1 THEN "El resultado de B1 colaborando con el ("
    ELSE "El resultado de B2 colaborando con el ("

\* C5: for every B variant i and A variant j, equal or not, Bi.collaborate(Aj)
\* ends without an error and returns the prefix of Bi, then exactly the
\* string the call of Aj.labelA() made inside it returned, then ")".
C5_AnyPair ==
    \A i \in Events("otraFuncionUtilB") :
       /\ trace[i].out = "ok"
       /\ i > 1
       /\ trace[i - 1].op = "funcionUtilA"
       /\ trace[i - 1].self = trace[i].arg
       /\ trace[i - 1].by = "otraFuncionUtilB"
       /\ trace[i].str = PrefixB(VariantOf(trace[i].self)) \o trace[i - 1].str \o ")"
       /\ \A k \in Events("otraFuncionUtilB") :
             (/\ VariantOf(trace[k].self) = VariantOf(trace[i].self)
              /\ trace[k - 1].str = trace[i - 1].str)
                => trace[k].str = trace[i].str

\* A B1 has collaborated with an A2.
C5_Witness ==
    \E i \in Events("otraFuncionUtilB") :
       /\ VariantOf(trace[i].self) = 1
       /\ VariantOf(trace[i].arg) = 2

StatedOutput ==
    << "Client: Testing client code with the first factory type...",
       "result of product B1.",
       "result of B1 collaborating with the (result of product A1.)",
       "",
       "Client: Testing the same client code with the second factory type...",
       "result of product B2.",
       "result of B2 collaborating with the (result of product A2.)" >>

ScriptOutput ==
    << "Cliente: Probando el código del cliente con el primer tipo de fábrica...",
       "El resultado del producto B1.",
       "El resultado de B1 colaborando con el (El resultado del producto A1.)",
       "",
       "Cliente: Probando el mismo código del cliente con el segundo tipo de fábrica...",
       "El resultado del producto B2.",
       "El resultado de B2 colaborando con el (El resultado del producto A2.)" >>

IsPrefix(s, t) == Len(s) <= Len(t) /\ s = SubSeq(t, 1, Len(s))

\* C6 as stated: a full run of the script has written exactly the seven
\* English lines, in order.
C6_Output_Stated == ScriptDone => stdout = StatedOutput

\* C6 amended: the script writes, in this order and with nothing before,
\* between or after, the seven lines of ScriptOutput (the strings of the
\* source); the factory-1 block precedes the factory-2 block.
C6_Output ==
    driver = "script" =>
       /\ IsPrefix(stdout, ScriptOutput)
       /\ ScriptDone => stdout = ScriptOutput
       /\ pc \in {"L141", "L142", "L144"} => Len(stdout) <= 3

\* The script has run to its end.
C6_Witness == ScriptDone /\ Len(stdout) = 7

\* C7: any two completed invocations of the client routine on the same
\* factory instance have appended the same lines.
C7_Idempotent ==
    \A i, j \in 1..Len(runs) :
       runs[i].fabrica = runs[j].fabrica => runs[i].out = runs[j].out

\* One factory instance has served three invocations.
C7_Witness ==
    \E i, j, k \in 1..Len(runs) :
       /\ i < j /\ j < k
       /\ runs[i].fabrica = runs[j].fabrica
       /\ runs[j].fabrica = runs[k].fabrica

ByCliente(e) == e.by = "codigoCliente"

\* C8: one invocation on factory F calls F.createProductA() once, then
\* F.createProductB() once, then productB.labelB(), then
\* productB.collaborate(productA) with the instance the first call returned,
\* and prints exactly the labelB result and then the collaborate result.
C8_StepOrder ==
    \A i \in 1..Len(runs) :
       LET r == runs[i]
           c == SelectSeq(r.calls, ByCliente)
       IN  /\ Len(c) = 4
           /\ c[1].op = "crearProductoA" /\ c[1].self = r.fabrica
           /\ c[2].op = "crearProductoB" /\ c[2].self = r.fabrica
           /\ c[3].op = "funcionUtilB" /\ c[3].self = c[2].obj
           /\ c[4].op = "otraFuncionUtilB" /\ c[4].self = c[2].obj
           /\ c[4].arg = c[1].obj
           /\ r.out = << c[3].str, c[4].str >>

\* Invocations on a factory of each variant have returned.
C8_Witness ==
    \A n \in {1, 2} : \E i \in 1..Len(runs) : VariantOf(runs[i].fabrica) = n

\* C9: no two create calls have returned the same object, a later call
\* returns a later allocation, and no factory holds a reference.
C9_Fresh ==
    /\ \A i, j \in Creates : i < j => trace[i].obj < trace[j].obj
    /\ \A i \in Creates : trace[i].obj \in Refs(heap) /\ trace[i].obj > trace[i].self
    /\ \A f \in FabricaAbstracta(heap, Refs(heap)) : heap[f].refs = {}

\* One factory has been asked twice for an A and twice for a B.
C9_Witness ==
    /\ \E i, j \in Events("crearProductoA") :
          i < j /\ trace[i].self = trace[j].self /\ trace[i].by = "harness"
    /\ \E i, j \in Events("crearProductoB") :
          i < j /\ trace[i].self = trace[j].self

\* C10: inside the client routine the collaborator has the variant of
\* productB, and the collaboration line printed names B<N> with the label
\* of A<N>.
C10_NoMixing ==
    /\ \A i \in Events("otraFuncionUtilB") :
          trace[i].by = "codigoCliente"
             => VariantOf(trace[i].self) = VariantOf(trace[i].arg)
    /\ \A i \in 1..Len(runs) :
          /\ VariantOf(runs[i].productoA) = VariantOf(runs[i].productoB)
          /\ VariantOf(runs[i].productoB) = VariantOf(runs[i].fabrica)
          /\ runs[i].out[2] \in
                {"El resultado de B1 colaborando con el (El resultado del producto A1.)",
                 "El resultado de B2 colaborando con el (El resultado del producto A2.)"}
    /\ driver = "script" =>
          \A k \in 1..Len(stdout) :
             stdout[k] \notin
                {"El resultado de B1 colaborando con el (El resultado del producto A2.)",
                 "El resultado de B2 colaborando con el (El resultado del producto A1.)"}

\* The script has ended after a collaboration of each variant.
C10_Witness ==
    /\ ScriptDone
    /\ \A n \in {1, 2} :
          \E i \in Events("otraFuncionUtilB") :
             trace[i].by = "codigoCliente" /\ Matched(i, n)

=============================================================================
